---- MODULE Spec2Model ----
(***************************************************************************)
(* Model of hospital_system.py: a four-stage patient pipeline.             *)
(*   registration  - threads of a ThreadPoolExecutor (register_patient)    *)
(*   diagnosis     - worker processes (run_diagnosis_worker)               *)
(*   allocation    - one asyncio task per patient (allocate_resources)     *)
(*   discharge     - one asyncio task (process_discharge)                  *)
(* driven by the coroutine hospital_simulation.                            *)
(*                                                                         *)
(* A step of an asyncio task runs from one suspension point to the next.   *)
(* Sleeps take an arbitrary time.  An exception is something an awaited    *)
(* call raises in place of completing (sleep, acquire, lock, put); the     *)
(* constructors of the doctor/bed handles and the console output do not    *)
(* raise.  Fault steps are counted in faults and bounded by MaxFaults.     *)
(***************************************************************************)
EXTENDS Integers, Sequences, FiniteSets, TLC

\* ---- bounds of the model ----
\* Runs start with any numPatients in 0..MaxPatients, numDoctors in
\* 1..MaxDoctors, numBeds in 1..MaxBeds and cpu_count in 1..MaxCpu, or as the
\* scarce-resource scenario: one doctor, one bed, two diagnosis workers and
\* ScenarioPatients patients, run without injected failures.  In the other
\* runs at most MaxFaults calls raise.
MaxPatients == 2
MaxDoctors == 2
MaxBeds == 2
MaxCpu == 2
MaxFaults == 1
ScenarioPatients == 3
MaxSample == 2         \* system times of a patient range over 1..MaxSample

\* ---- PatientStatus (enum values) ----
WAITING_REGISTRATION == 0
REGISTERED == 1
WAITING_DIAGNOSIS == 2
DIAGNOSED == 3
WAITING_RESOURCE == 4
IN_TREATMENT == 5
READY_FOR_DISCHARGE == 6
DISCHARGED == 7

\* ThreadPoolExecutor(max_workers=5)
RegWorkers == 5

\* The sentinel None on the diagnosis queue; patients are 1..numPatients.
Sentinel == 0

VARIABLES
    numPatients,        \* num_patients
    numDoctors,         \* num_doctors
    numBeds,            \* num_beds
    cpu_count,          \* multiprocessing.cpu_count()
    faultBudget,        \* number of failures the run may see
    total_patients,     \* resources.total_patients
    processed_patients, \* resources.processed_patients
    registration_lock,  \* 0 = free, p = held by the thread registering p
    regPc,              \* per patient: position of its register_patient call
    regLocal,           \* per patient: value of total_patients read for += 1
    origStatus,         \* status of the Patient object of patients_to_register
    status,             \* status of the copy of the record the pipeline holds
    diagnosis_queue,    \* resources.diagnosis_queue (FIFO of patients / Sentinel)
    diagnosis_result_queue,
    discharge_queue,    \* resources.discharge_queue items
    unfinished_tasks,   \* discharge_queue._unfinished_tasks (put - task_done)
    workerPc,           \* per diagnosis worker: "get", "busy", "exited", "hung", "terminated"
    workerCur,          \* per diagnosis worker: the patient it holds (0 = none)
    orch,               \* position of hospital_simulation
    diagnosis_collected_count,
    joined,             \* number of diagnosis processes already joined
    taskPc,             \* per patient: position of its allocate_resources task
    assigned_doctor,    \* per task: local assigned_doctor is set
    assigned_bed,       \* per task: local assigned_bed is set
    assigned_resources, \* per patient: patient.assigned_resources
    doctors_semaphore,  \* value of resources.doctors_semaphore
    beds_semaphore,     \* value of resources.beds_semaphore
    dischargePc,        \* "new", "get", "delay", "cancelled"
    dischargeCur,       \* patient the discharge loop holds (0 = none)
    avg_wait_time,      \* resources.avg_wait_time, an exact fraction [n, d]
    sampleSum,          \* history: sum of the system times of the discharged
    faults,             \* number of injected failures so far
    hist                \* history: per patient counters of acquires, releases, puts

vars == <<numPatients, numDoctors, numBeds, cpu_count, faultBudget, total_patients,
          processed_patients, registration_lock, regPc, regLocal, origStatus,
          status, diagnosis_queue, diagnosis_result_queue, discharge_queue,
          unfinished_tasks, workerPc, workerCur, orch, diagnosis_collected_count,
          joined, taskPc, assigned_doctor, assigned_bed, assigned_resources,
          doctors_semaphore, beds_semaphore, dischargePc, dischargeCur,
          avg_wait_time, sampleSum, faults, hist>>

Patients == 1..numPatients

\* num_processors = int(multiprocessing.cpu_count()*0.8)
NumProcessors(c) == (c * 8) \div 10

Workers == 1..NumProcessors(cpu_count)

NoHistory == [docAcq |-> 0, docRel |-> 0, bedAcq |-> 0, bedRel |-> 0,
              diagPuts |-> 0, dischargePuts |-> 0, tasks |-> 0,
              diagnosed |-> 0, lost |-> FALSE, dischargeError |-> FALSE]

Bump(p, f) == [hist EXCEPT ![p][f] = @ + 1]

Init ==
    /\ \/ /\ numPatients \in 0..MaxPatients
          /\ numDoctors \in 1..MaxDoctors
          /\ numBeds \in 1..MaxBeds
          /\ cpu_count \in 1..MaxCpu
          /\ faultBudget = MaxFaults
       \/ /\ numPatients = ScenarioPatients
          /\ numDoctors = 1
          /\ numBeds = 1
          /\ cpu_count = 3
          /\ faultBudget = 0
    /\ total_patients = 0
    /\ processed_patients = 0
    /\ registration_lock = 0
    /\ regPc = [p \in Patients |-> "sleep"]
    /\ regLocal = [p \in Patients |-> 0]
    /\ origStatus = [p \in Patients |-> WAITING_REGISTRATION]
    /\ status = [p \in Patients |-> WAITING_REGISTRATION]
    /\ diagnosis_queue = <<>>
    /\ diagnosis_result_queue = <<>>
    /\ discharge_queue = <<>>
    /\ unfinished_tasks = 0
    /\ workerPc = [w \in Workers |-> "get"]
    /\ workerCur = [w \in Workers |-> 0]
    /\ orch = "register"
    /\ diagnosis_collected_count = 0
    /\ joined = 0
    /\ taskPc = [p \in Patients |-> "none"]
    /\ assigned_doctor = [p \in Patients |-> FALSE]
    /\ assigned_bed = [p \in Patients |-> FALSE]
    /\ assigned_resources = [p \in Patients |-> [doctor |-> FALSE, bed |-> FALSE]]
    /\ doctors_semaphore = numDoctors
    /\ beds_semaphore = numBeds
    /\ dischargePc = "new"
    /\ dischargeCur = 0
    /\ avg_wait_time = [n |-> 0, d |-> 1]
    /\ sampleSum = 0
    /\ faults = 0
    /\ hist = [p \in Patients |-> NoHistory]

params == <<numPatients, numDoctors, numBeds, cpu_count, faultBudget>>
regVars == <<total_patients, registration_lock, regPc, regLocal, origStatus>>
workerVars == <<workerPc, workerCur>>
orchVars == <<orch, diagnosis_collected_count, joined>>
taskVars == <<taskPc, assigned_doctor, assigned_bed>>
poolVars == <<doctors_semaphore, beds_semaphore>>
dischargeVars == <<dischargePc, dischargeCur, processed_patients, discharge_queue,
                   unfinished_tasks, avg_wait_time, sampleSum>>

CanFail == faults < faultBudget

\* ---------------------------------------------------------------------
\* 1. Registration: register_patient on the threads of the executor
\* ---------------------------------------------------------------------

\* The executor runs the submitted calls in submission order on at most
\* RegWorkers threads: the call for p is on a thread once fewer than
\* RegWorkers earlier calls are unfinished.
OnThread(p) ==
    Cardinality({q \in Patients : q < p /\ regPc[q] # "done"}) < RegWorkers

RegistrationLockIgnored == TRUE

\* with resources.registration_lock: entry blocks while another thread holds it
RegistrationLockFree == registration_lock = 0

\* After the sleep: enter the locked region and read total_patients (+= 1
\* is a read followed by a write).
RegEnter(p) ==
    /\ orch = "register"
    /\ regPc[p] = "sleep"
    /\ OnThread(p)
    /\ RegistrationLockFree
    /\ registration_lock' = p
    /\ regLocal' = [regLocal EXCEPT ![p] = total_patients]
    /\ regPc' = [regPc EXCEPT ![p] = "locked"]
    /\ UNCHANGED <<params, total_patients, origStatus, status, diagnosis_queue,
                   diagnosis_result_queue, workerVars, orchVars, taskVars,
                   assigned_resources, poolVars, dischargeVars, faults, hist>>

\* Rest of the locked region: write the counter, set REGISTERED, put the
\* record on the diagnosis queue (the queue carries a pickled copy), leave;
\* the call returns and its local is gone.
RegCommit(p) ==
    /\ regPc[p] = "locked"
    /\ total_patients' = regLocal[p] + 1
    /\ origStatus' = [origStatus EXCEPT ![p] = REGISTERED]
    /\ status' = [status EXCEPT ![p] = REGISTERED]
    /\ diagnosis_queue' = Append(diagnosis_queue, p)
    /\ registration_lock' = 0
    /\ regPc' = [regPc EXCEPT ![p] = "done"]
    /\ hist' = Bump(p, "diagPuts")
    /\ regLocal' = [regLocal EXCEPT ![p] = 0]
    /\ UNCHANGED <<params, diagnosis_result_queue, workerVars, orchVars,
                   taskVars, assigned_resources, poolVars, dischargeVars, faults>>

\* ---------------------------------------------------------------------
\* 2. Diagnosis: run_diagnosis_worker in each worker process
\* ---------------------------------------------------------------------

WorkerKeepsRegistered == REGISTERED

\* Status the worker gives a record it starts to process.
WorkerStartStatus == WAITING_DIAGNOSIS

\* diagnosis_queue.get(timeout=1) returns an item: the sentinel ends the
\* loop, a patient is taken into processing.
WorkerGet(w) ==
    /\ workerPc[w] = "get"
    /\ diagnosis_queue # <<>>
    /\ LET item == Head(diagnosis_queue) IN
        /\ diagnosis_queue' = Tail(diagnosis_queue)
        /\ IF item = Sentinel
           THEN /\ workerPc' = [workerPc EXCEPT ![w] = "exited"]
                /\ UNCHANGED <<workerCur, status>>
           ELSE /\ workerPc' = [workerPc EXCEPT ![w] = "busy"]
                /\ workerCur' = [workerCur EXCEPT ![w] = item]
                /\ status' = [status EXCEPT ![item] = WorkerStartStatus]
    /\ UNCHANGED <<params, regVars, diagnosis_result_queue, orchVars, taskVars,
                   assigned_resources, poolVars, dischargeVars, faults, hist>>

TimeoutExits == "exited"

\* except queue.Empty: continue -- back to the get.
TimeoutNext == "get"

\* patient_queue.get(timeout=1) raises queue.Empty on an empty queue.
WorkerTimeout(w) ==
    /\ workerPc[w] = "get"
    /\ diagnosis_queue = <<>>
    /\ workerPc' = [workerPc EXCEPT ![w] = TimeoutNext]
    /\ UNCHANGED <<params, regVars, status, diagnosis_queue, diagnosis_result_queue,
                   workerCur, orchVars, taskVars, assigned_resources, poolVars,
                   dischargeVars, faults, hist>>

\* The sleep ends: diagnosis stored, DIAGNOSED, result_queue.put(patient).
WorkerFinish(w) ==
    /\ workerPc[w] = "busy"
    /\ LET p == workerCur[w] IN
        /\ status' = [status EXCEPT ![p] = DIAGNOSED]
        /\ diagnosis_result_queue' = Append(diagnosis_result_queue, p)
        /\ hist' = Bump(p, "diagnosed")
    /\ workerPc' = [workerPc EXCEPT ![w] = "get"]
    /\ workerCur' = [workerCur EXCEPT ![w] = 0]
    /\ UNCHANGED <<params, regVars, diagnosis_queue, orchVars, taskVars,
                   assigned_resources, poolVars, dischargeVars, faults>>

WorkerExitsOnError == "exited"

\* The except Exception handler only prints; the while True loop goes on
\* with the next get.
WorkerAfterError == "get"

\* except Exception: the item in hand is dropped and the loop continues.
\* The sleep raises (status still WAITING_DIAGNOSIS) or the put raises
\* (status already DIAGNOSED).
WorkerFail(w) ==
    /\ CanFail
    /\ workerPc[w] = "busy"
    /\ LET p == workerCur[w] IN
        /\ \E st \in {status[p], DIAGNOSED} : status' = [status EXCEPT ![p] = st]
        /\ hist' = [hist EXCEPT ![p].lost = TRUE]
    /\ workerPc' = [workerPc EXCEPT ![w] = WorkerAfterError]
    /\ workerCur' = [workerCur EXCEPT ![w] = 0]
    /\ faults' = faults + 1
    /\ UNCHANGED <<params, regVars, diagnosis_queue, diagnosis_result_queue, orchVars,
                   taskVars, assigned_resources, poolVars, dischargeVars>>

\* A worker that stops responding with its sentinel at the head of the
\* queue (never returns from the loop body).
WorkerHang(w) ==
    /\ CanFail
    /\ workerPc[w] = "get"
    /\ diagnosis_queue # <<>>
    /\ Head(diagnosis_queue) = Sentinel
    /\ workerPc' = [workerPc EXCEPT ![w] = "hung"]
    /\ faults' = faults + 1
    /\ UNCHANGED <<params, regVars, status, diagnosis_queue, diagnosis_result_queue,
                   workerCur, orchVars, taskVars, assigned_resources, poolVars,
                   dischargeVars, hist>>

\* ---------------------------------------------------------------------
\* 3. Allocation: one allocate_resources task per collected patient
\* ---------------------------------------------------------------------

\* First step of the task: WAITING_RESOURCE, then the availability sleep.
\* "wait_doctor" covers that sleep and the wait on doctors_semaphore.
AllocStart(p) ==
    /\ taskPc[p] = "created"
    /\ status' = [status EXCEPT ![p] = WAITING_RESOURCE]
    /\ taskPc' = [taskPc EXCEPT ![p] = "wait_doctor"]
    /\ UNCHANGED <<params, regVars, diagnosis_queue, diagnosis_result_queue, workerVars,
                   orchVars, assigned_doctor, assigned_bed, assigned_resources,
                   poolVars, dischargeVars, faults, hist>>

\* asyncio.Semaphore.acquire() returns only while the value is positive
DoctorAvailable == doctors_semaphore > 0

BedAlwaysAvailable == TRUE

BedAvailable == beds_semaphore > 0

\* await doctors_semaphore.acquire() returns; assigned_doctor = {...}
AcquireDoctor(p) ==
    /\ taskPc[p] = "wait_doctor"
    /\ DoctorAvailable
    /\ doctors_semaphore' = doctors_semaphore - 1
    /\ assigned_doctor' = [assigned_doctor EXCEPT ![p] = TRUE]
    /\ taskPc' = [taskPc EXCEPT ![p] = "wait_bed"]
    /\ hist' = Bump(p, "docAcq")
    /\ UNCHANGED <<params, regVars, status, diagnosis_queue, diagnosis_result_queue,
                   workerVars, orchVars, assigned_bed, assigned_resources,
                   beds_semaphore, dischargeVars, faults>>

\* await beds_semaphore.acquire() returns; assigned_bed = {...}; under
\* resource_lock (never contended: its body has no suspension point) the
\* record gets assigned_resources and IN_TREATMENT; the treatment sleep starts.
AcquireBed(p) ==
    /\ taskPc[p] = "wait_bed"
    /\ BedAvailable
    /\ beds_semaphore' = beds_semaphore - 1
    /\ assigned_bed' = [assigned_bed EXCEPT ![p] = TRUE]
    /\ assigned_resources' = [assigned_resources EXCEPT
                                 ![p] = [doctor |-> assigned_doctor[p], bed |-> TRUE]]
    /\ status' = [status EXCEPT ![p] = IN_TREATMENT]
    /\ taskPc' = [taskPc EXCEPT ![p] = "treat"]
    /\ hist' = Bump(p, "bedAcq")
    /\ UNCHANGED <<params, regVars, diagnosis_queue, diagnosis_result_queue, workerVars,
                   orchVars, assigned_doctor, doctors_semaphore, dischargeVars, faults>>

\* The treatment sleep ends: READY_FOR_DISCHARGE, discharge_queue.put(patient).
TreatmentDone(p) ==
    /\ taskPc[p] = "treat"
    /\ status' = [status EXCEPT ![p] = READY_FOR_DISCHARGE]
    /\ discharge_queue' = Append(discharge_queue, p)
    /\ unfinished_tasks' = unfinished_tasks + 1
    /\ taskPc' = [taskPc EXCEPT ![p] = "done"]
    /\ hist' = Bump(p, "dischargePuts")
    /\ UNCHANGED <<params, regVars, diagnosis_queue, diagnosis_result_queue, workerVars,
                   orchVars, assigned_doctor, assigned_bed, assigned_resources,
                   poolVars, dischargePc, dischargeCur, processed_patients,
                   avg_wait_time, sampleSum, faults>>

\* except Exception: "if assigned_doctor:" / "if assigned_bed:" decide the
\* releases; hasDoctor, hasBed are the task's locals when the handler runs.
RollbackDoctorIfBed(hasDoctor, hasBed) == hasBed

RollbackForgetsDoctor(hasDoctor, hasBed) == FALSE

RollbackDoctorUnlessBed(hasDoctor, hasBed) == hasDoctor /\ ~hasBed

RollbackReleasesDoctor(hasDoctor, hasBed) == hasDoctor

RollbackKeepsBed(hasDoctor, hasBed) == FALSE

RollbackBedAlways(hasDoctor, hasBed) == TRUE

RollbackReleasesBed(hasDoctor, hasBed) == hasBed

\* The handler of allocate_resources, run with the locals as given, after
\* the task acquired bedNow further bed units in this step.
Rollback(p, hasDoctor, hasBed, bedNow) ==
    LET d == IF RollbackReleasesDoctor(hasDoctor, hasBed) THEN 1 ELSE 0
        b == IF RollbackReleasesBed(hasDoctor, hasBed) THEN 1 ELSE 0
    IN  /\ doctors_semaphore' = doctors_semaphore + d
        /\ beds_semaphore' = beds_semaphore - bedNow + b
        /\ hist' = [hist EXCEPT ![p] = [@ EXCEPT !.docRel = @ + d,
                                                 !.bedRel = @ + b,
                                                 !.bedAcq = @ + bedNow]]
        /\ taskPc' = [taskPc EXCEPT ![p] = "failed"]
        /\ faults' = faults + 1

\* The availability sleep raises (outside the try: the exception ends the
\* task) or doctors_semaphore.acquire() raises (handler, nothing assigned).
AllocFailBeforeDoctor(p) ==
    /\ CanFail
    /\ taskPc[p] = "wait_doctor"
    /\ Rollback(p, assigned_doctor[p], assigned_bed[p], 0)
    /\ UNCHANGED <<params, regVars, status, diagnosis_queue, diagnosis_result_queue,
                   workerVars, orchVars, assigned_doctor, assigned_bed,
                   assigned_resources, dischargeVars>>

\* beds_semaphore.acquire() raises: the doctor is held, the bed is not.
AllocFailAtBed(p) ==
    /\ CanFail
    /\ taskPc[p] = "wait_bed"
    /\ Rollback(p, assigned_doctor[p], assigned_bed[p], 0)
    /\ UNCHANGED <<params, regVars, status, diagnosis_queue, diagnosis_result_queue,
                   workerVars, orchVars, assigned_doctor, assigned_bed,
                   assigned_resources, dischargeVars>>

\* The bed is acquired and assigned, then entering resource_lock raises:
\* doctor and bed are held, the record is still WAITING_RESOURCE.
AllocFailAtLock(p) ==
    /\ CanFail
    /\ taskPc[p] = "wait_bed"
    /\ BedAvailable
    /\ assigned_bed' = [assigned_bed EXCEPT ![p] = TRUE]
    /\ Rollback(p, assigned_doctor[p], TRUE, 1)
    /\ UNCHANGED <<params, regVars, status, diagnosis_queue, diagnosis_result_queue,
                   workerVars, orchVars, assigned_doctor, assigned_resources,
                   dischargeVars>>

\* The treatment sleep raises (record stays IN_TREATMENT) or the put on the
\* discharge queue raises (record already READY_FOR_DISCHARGE, not enqueued).
AllocFailInTreatment(p) ==
    /\ CanFail
    /\ taskPc[p] = "treat"
    /\ \E st \in {status[p], READY_FOR_DISCHARGE} : status' = [status EXCEPT ![p] = st]
    /\ Rollback(p, assigned_doctor[p], assigned_bed[p], 0)
    /\ UNCHANGED <<params, regVars, diagnosis_queue, diagnosis_result_queue,
                   workerVars, orchVars, assigned_doctor, assigned_bed,
                   assigned_resources, dischargeVars>>

\* ---------------------------------------------------------------------
\* 4. Discharge: the process_discharge task
\* ---------------------------------------------------------------------

\* The task created at line 228 first runs when hospital_simulation
\* suspends: with patients, in the collection loop or the gather.
DischargeStart ==
    /\ dischargePc = "new"
    /\ numPatients > 0
    /\ orch \in {"collect", "gather", "join"}
    /\ dischargePc' = "get"
    /\ UNCHANGED <<params, regVars, status, diagnosis_queue, diagnosis_result_queue,
                   workerVars, orchVars, taskVars, assigned_resources, poolVars,
                   dischargeCur, processed_patients, discharge_queue,
                   unfinished_tasks, avg_wait_time, sampleSum, faults, hist>>

\* await discharge_queue.get() returns; the discharge sleep starts.
DischargeGet ==
    /\ dischargePc = "get"
    /\ discharge_queue # <<>>
    /\ dischargeCur' = Head(discharge_queue)
    /\ discharge_queue' = Tail(discharge_queue)
    /\ dischargePc' = "delay"
    /\ UNCHANGED <<params, regVars, status, diagnosis_queue, diagnosis_result_queue,
                   workerVars, orchVars, taskVars, assigned_resources, poolVars,
                   processed_patients, unfinished_tasks, avg_wait_time, sampleSum,
                   faults, hist>>

\* "if 'doctor' in patient.assigned_resources and ...['doctor']" / same for 'bed'
DischargeKeepsDoctor(p) == FALSE

DischargeReleasesDoctor(p) == assigned_resources[p].doctor

DischargeKeepsBed(p) == FALSE

DischargeReleasesBed(p) == assigned_resources[p].bed

RECURSIVE GCD(_, _)
GCD(a, b) == IF b = 0 THEN a ELSE GCD(b, a % b)

\* A fraction in lowest terms.
Fraction(n, d) == [n |-> n \div GCD(n, d), d |-> d \div GCD(n, d)]

PriorCountOffByOne(k) == k

\* (resources.processed_patients - 1), read after the increment
PriorCount(k) == k - 1

\* ((avg_wait_time * (processed_patients - 1)) + total_time_in_system)
\*     / processed_patients, with k the incremented processed_patients
AvgUpdate(avg, k, sample) ==
    Fraction(avg.n * PriorCount(k) + sample * avg.d, avg.d * k)

\* The discharge sleep ends: releases, DISCHARGED, statistics, task_done().
DischargeFinish ==
    /\ dischargePc = "delay"
    /\ LET p == dischargeCur
           d == IF DischargeReleasesDoctor(p) THEN 1 ELSE 0
           b == IF DischargeReleasesBed(p) THEN 1 ELSE 0
       IN  /\ doctors_semaphore' = doctors_semaphore + d
           /\ beds_semaphore' = beds_semaphore + b
           /\ status' = [status EXCEPT ![p] = DISCHARGED]
           /\ hist' = [hist EXCEPT ![p] = [@ EXCEPT !.docRel = @ + d, !.bedRel = @ + b]]
    /\ processed_patients' = processed_patients + 1
    /\ \E sample \in 1..MaxSample :
        /\ avg_wait_time' = AvgUpdate(avg_wait_time, processed_patients + 1, sample)
        /\ sampleSum' = sampleSum + sample
    /\ unfinished_tasks' = unfinished_tasks - 1
    /\ dischargePc' = "get"
    /\ dischargeCur' = 0
    /\ UNCHANGED <<params, regVars, diagnosis_queue, diagnosis_result_queue, workerVars,
                   orchVars, taskVars, assigned_resources, discharge_queue, faults>>

\* The discharge sleep raises: "except Exception" only prints and the loop
\* goes back to the get.  Nothing after the sleep has run: no release, no
\* DISCHARGED, no statistics, no task_done().
DischargeFail ==
    /\ CanFail
    /\ dischargePc = "delay"
    /\ hist' = [hist EXCEPT ![dischargeCur].dischargeError = TRUE]
    /\ dischargePc' = "get"
    /\ dischargeCur' = 0
    /\ faults' = faults + 1
    /\ UNCHANGED <<params, regVars, status, diagnosis_queue, diagnosis_result_queue,
                   workerVars, orchVars, taskVars, assigned_resources, poolVars,
                   processed_patients, discharge_queue, unfinished_tasks,
                   avg_wait_time, sampleSum>>

\* ---------------------------------------------------------------------
\* 5. The orchestrator: hospital_simulation
\* ---------------------------------------------------------------------

\* Leaving the "with ThreadPoolExecutor" block: every submitted call returned.
OrchRegistered ==
    /\ orch = "register"
    /\ \A p \in Patients : regPc[p] = "done"
    /\ orch' = "collect"
    /\ UNCHANGED <<params, regVars, status, diagnosis_queue, diagnosis_result_queue,
                   workerVars, diagnosis_collected_count, joined, taskVars,
                   assigned_resources, poolVars, dischargeVars, faults, hist>>

CollectMoreInclusive == diagnosis_collected_count <= numPatients

\* while diagnosis_collected_count < num_patients
CollectMore == diagnosis_collected_count < numPatients

ResultAfterPeek(q) == q

\* diagnosis_result_queue.get_nowait() removes the result it returns.
ResultAfterGet(q) == Tail(q)

\* A poll that finds a result: count it and create its allocation task.
\* (A poll that finds none sleeps 0.1 s and changes nothing.)
Collect ==
    /\ orch = "collect"
    /\ CollectMore
    /\ diagnosis_result_queue # <<>>
    /\ LET p == Head(diagnosis_result_queue) IN
        /\ taskPc' = [taskPc EXCEPT ![p] = "created"]
        /\ hist' = Bump(p, "tasks")
    /\ diagnosis_result_queue' = ResultAfterGet(diagnosis_result_queue)
    /\ diagnosis_collected_count' = diagnosis_collected_count + 1
    /\ UNCHANGED <<params, regVars, status, diagnosis_queue, workerVars, orch, joined,
                   assigned_doctor, assigned_bed, assigned_resources, poolVars,
                   dischargeVars, faults>>

OrchCollected ==
    /\ orch = "collect"
    /\ ~CollectMore
    /\ orch' = "gather"
    /\ UNCHANGED <<params, regVars, status, diagnosis_queue, diagnosis_result_queue,
                   workerVars, diagnosis_collected_count, joined, taskVars,
                   assigned_resources, poolVars, dischargeVars, faults, hist>>

\* asyncio.gather(*allocation_tasks, return_exceptions=True) returns
OrchGathered ==
    /\ orch = "gather"
    /\ \A p \in Patients : taskPc[p] \in {"none", "done", "failed"}
    /\ orch' = "join"
    /\ UNCHANGED <<params, regVars, status, diagnosis_queue, diagnosis_result_queue,
                   workerVars, diagnosis_collected_count, joined, taskVars,
                   assigned_resources, poolVars, dischargeVars, faults, hist>>

QueueEmptyOnly == discharge_queue = <<>>

\* Queue.join() blocks until every item put has been acknowledged with
\* task_done(), not merely dequeued.
QueueDrained == unfinished_tasks = 0

\* await resources.discharge_queue.join() returns
OrchJoined ==
    /\ orch = "join"
    /\ QueueDrained
    /\ orch' = "cancel"
    /\ UNCHANGED <<params, regVars, status, diagnosis_queue, diagnosis_result_queue,
                   workerVars, diagnosis_collected_count, joined, taskVars,
                   assigned_resources, poolVars, dischargeVars, faults, hist>>

\* discharge_task.cancel(); await discharge_task: CancelledError is raised
\* at the loop's suspension point (or the task never starts) and it ends.
OrchCancel ==
    /\ orch = "cancel"
    /\ dischargePc' = "cancelled"
    /\ orch' = "sentinels"
    /\ UNCHANGED <<params, regVars, status, diagnosis_queue, diagnosis_result_queue,
                   workerVars, diagnosis_collected_count, joined, taskVars,
                   assigned_resources, poolVars, dischargeCur, processed_patients,
                   discharge_queue, unfinished_tasks, avg_wait_time, sampleSum,
                   faults, hist>>

\* task.cancel() delivered to process_discharge at an arbitrary moment:
\* CancelledError is raised at the suspension point the loop is in (the
\* queue get or the discharge sleep), the handler breaks out of the loop and
\* nothing after the suspension point is executed.
EarlyCancel ==
    /\ dischargePc \in {"new", "get", "delay"}
    /\ dischargePc' = "cancelled"
    /\ UNCHANGED <<params, regVars, status, diagnosis_queue, diagnosis_result_queue,
                   workerVars, orchVars, taskVars, assigned_resources, poolVars,
                   dischargeCur, processed_patients, discharge_queue,
                   unfinished_tasks, avg_wait_time, sampleSum, faults, hist>>

RECURSIVE Sentinels(_)
Sentinels(n) == IF n = 0 THEN <<>> ELSE Append(Sentinels(n - 1), Sentinel)

\* for _ in range(num_processors): diagnosis_queue.put(None)
OrchSentinels ==
    /\ orch = "sentinels"
    /\ diagnosis_queue' = diagnosis_queue \o Sentinels(NumProcessors(cpu_count))
    /\ orch' = "joinworkers"
    /\ UNCHANGED <<params, regVars, status, diagnosis_result_queue, workerVars,
                   diagnosis_collected_count, joined, taskVars, assigned_resources,
                   poolVars, dischargeVars, faults, hist>>

JoinNeverTimesOut(w) == FALSE

\* p.join(timeout=5) returns with the process still alive (p.is_alive())
\* when the worker does not respond.
JoinTimesOut(w) == workerPc[w] = "hung"

\* p.join(timeout=5) for the next process: it has ended, or the timeout
\* passes on a process that does not respond and it is terminated.  (A
\* responsive worker is idle by now and takes its sentinel within the 1 s
\* of its get, well inside the 5 s.)
OrchJoinWorker ==
    /\ orch = "joinworkers"
    /\ joined < NumProcessors(cpu_count)
    /\ LET w == joined + 1 IN
        \/ /\ workerPc[w] = "exited"
           /\ UNCHANGED workerPc
        \/ /\ JoinTimesOut(w)
           /\ workerPc' = [workerPc EXCEPT ![w] = "terminated"]
    /\ joined' = joined + 1
    /\ UNCHANGED <<params, regVars, status, diagnosis_queue, diagnosis_result_queue,
                   workerCur, orch, diagnosis_collected_count, taskVars,
                   assigned_resources, poolVars, dischargeVars, faults, hist>>

OrchDone ==
    /\ orch = "joinworkers"
    /\ joined = NumProcessors(cpu_count)
    /\ orch' = "done"
    /\ UNCHANGED <<params, regVars, status, diagnosis_queue, diagnosis_result_queue,
                   workerVars, diagnosis_collected_count, joined, taskVars,
                   assigned_resources, poolVars, dischargeVars, faults, hist>>

\* ---------------------------------------------------------------------
\* Specifications
\* ---------------------------------------------------------------------

\* Steps of the program itself.
Run ==
    \/ \E p \in Patients : RegEnter(p)
    \/ \E p \in Patients : RegCommit(p)
    \/ \E w \in Workers : WorkerGet(w)
    \/ \E w \in Workers : WorkerTimeout(w)
    \/ \E w \in Workers : WorkerFinish(w)
    \/ \E p \in Patients : AllocStart(p)
    \/ \E p \in Patients : AcquireDoctor(p)
    \/ \E p \in Patients : AcquireBed(p)
    \/ \E p \in Patients : TreatmentDone(p)
    \/ DischargeStart
    \/ DischargeGet
    \/ DischargeFinish
    \/ OrchRegistered
    \/ Collect
    \/ OrchCollected
    \/ OrchGathered
    \/ OrchJoined
    \/ OrchCancel
    \/ OrchSentinels
    \/ OrchJoinWorker
    \/ OrchDone

\* Steps in which a call raises or a worker stops responding.
Fault ==
    \/ \E w \in Workers : WorkerFail(w)
    \/ \E w \in Workers : WorkerHang(w)
    \/ \E p \in Patients : AllocFailBeforeDoctor(p)
    \/ \E p \in Patients : AllocFailAtBed(p)
    \/ \E p \in Patients : AllocFailAtLock(p)
    \/ \E p \in Patients : AllocFailInTreatment(p)
    \/ DischargeFail

Next == Run \/ Fault

Spec == Init /\ [][Next]_vars

\* Threads, processes and the event loop keep running: a step of the
\* program that stays possible is eventually taken.  Faults need not occur.
FairSpec == Spec /\ WF_vars(Run)

\* process_discharge driven by a caller that may cancel it at any moment.
CancelNext == Next \/ EarlyCancel

CancelSpec == Init /\ [][CancelNext]_vars

\* ---------------------------------------------------------------------
\* Properties
\* ---------------------------------------------------------------------

Min(a, b) == IF a <= b THEN a ELSE b

Failed(p) == taskPc[p] = "failed"

\* Units patient p holds, from the history of its acquires and releases.
DoctorsHeldBy(p) == hist[p].docAcq - hist[p].docRel
BedsHeldBy(p) == hist[p].bedAcq - hist[p].bedRel

RECURSIVE SumTo(_, _)
SumTo(f, n) == IF n = 0 THEN 0 ELSE f[n] + SumTo(f, n - 1)

DoctorsHeld == SumTo([p \in Patients |-> DoctorsHeldBy(p)], numPatients)
BedsHeld == SumTo([p \in Patients |-> BedsHeldBy(p)], numPatients)

\* C1: in every reachable state, failures and rollbacks included, each pool
\* has 0 <= available <= capacity, the patients holding a doctor (a bed) are
\* at most numDoctors (numBeds), and available + held = capacity.
C1_PoolsWithinCapacity ==
    /\ doctors_semaphore >= 0 /\ doctors_semaphore <= numDoctors
    /\ beds_semaphore >= 0 /\ beds_semaphore <= numBeds
    /\ Cardinality({p \in Patients : DoctorsHeldBy(p) > 0}) <= numDoctors
    /\ Cardinality({p \in Patients : BedsHeldBy(p) > 0}) <= numBeds
    /\ doctors_semaphore + DoctorsHeld = numDoctors
    /\ beds_semaphore + BedsHeld = numBeds

\* A task rolled its doctor back and the doctor pool is exhausted again.
C1_Witness ==
    \E p \in Patients :
        /\ Failed(p)
        /\ hist[p].docRel = 1
        /\ doctors_semaphore = 0

\* C2: a DISCHARGED patient has exactly one doctor acquire, one doctor
\* release, one bed acquire and one bed release; and for no patient does a
\* release come before its acquire.
C2_DischargedReleasedOnce ==
    \A p \in Patients :
        /\ DoctorsHeldBy(p) >= 0
        /\ BedsHeldBy(p) >= 0
        /\ status[p] = DISCHARGED =>
              /\ hist[p].docAcq = 1 /\ hist[p].docRel = 1
              /\ hist[p].bedAcq = 1 /\ hist[p].bedRel = 1

\* One patient is discharged in a run where another task rolled back.
C2_Witness ==
    \E p, q \in Patients :
        /\ status[p] = DISCHARGED
        /\ Failed(q)
        /\ hist[q].docRel = 1

\* C3: the step in which an allocation task fails returns to each pool
\* exactly the units the task held before the step (a unit acquired within
\* the failing step is returned too), so that the failed task holds nothing
\* and has released no more than it acquired.
C3_RollbackExact ==
    [][\A p \in Patients :
          (~Failed(p) /\ taskPc'[p] = "failed") =>
              /\ doctors_semaphore' = doctors_semaphore + DoctorsHeldBy(p)
              /\ beds_semaphore' = beds_semaphore + BedsHeldBy(p)
              /\ hist'[p].docRel = hist'[p].docAcq
              /\ hist'[p].bedRel = hist'[p].bedAcq
              /\ hist'[p].docRel - hist[p].docRel = DoctorsHeldBy(p)]_vars

\* A task failed after the doctor acquisition and before the bed
\* acquisition, and the doctor is back in the pool.
C3_Witness ==
    \E p \in Patients :
        /\ Failed(p)
        /\ hist[p].docAcq = 1 /\ hist[p].bedAcq = 0
        /\ hist[p].docRel = 1 /\ hist[p].bedRel = 0
        /\ doctors_semaphore = numDoctors

\* C4: once the executor has been joined, total_patients = numPatients,
\* every Patient object is REGISTERED and was put exactly once on the
\* diagnosis queue.
C4_RegistrationCounts ==
    orch # "register" =>
        /\ total_patients = numPatients
        /\ \A p \in Patients :
              /\ origStatus[p] = REGISTERED
              /\ hist[p].diagPuts = 1

\* Registration of two or more patients has completed.
C4_Witness ==
    /\ orch = "collect"
    /\ numPatients >= 2
    /\ total_patients = numPatients

HasWorker == DOMAIN workerPc # {}

AllDischarged == \A p \in Patients : status[p] = DISCHARGED

\* C5: in a run without failures and with a diagnosis worker, eventually
\* the simulation has ended with every patient DISCHARGED and
\* processed_patients = total_patients = numPatients.
C5_AllDischarged ==
    HasWorker
        ~> \/ faults > 0
           \/ /\ orch = "done"
              /\ AllDischarged
              /\ processed_patients = numPatients
              /\ total_patients = numPatients

\* One doctor, one bed, three patients: the run has ended, all discharged.
C5_Witness ==
    /\ numDoctors = 1 /\ numBeds = 1 /\ numPatients = 3
    /\ orch = "done"
    /\ AllDischarged
    /\ processed_patients = 3

InTreatment == {p \in Patients : status[p] = IN_TREATMENT}

\* C6 as stated: at every moment at most min(numDoctors, numBeds) patients
\* have status IN_TREATMENT.
C6_InTreatmentBounded ==
    Cardinality(InTreatment) <= Min(numDoctors, numBeds)

\* C6 amended: at every moment at most min(numDoctors, numBeds) patients
\* whose allocation task has not failed have status IN_TREATMENT, and every
\* such patient holds a doctor and a bed; a READY_FOR_DISCHARGE patient whose
\* task has not failed holds them too.
C6_TreatedBounded ==
    /\ Cardinality({p \in InTreatment : ~Failed(p)}) <= Min(numDoctors, numBeds)
    /\ \A p \in Patients :
          (status[p] \in {IN_TREATMENT, READY_FOR_DISCHARGE} /\ ~Failed(p)) =>
              (DoctorsHeldBy(p) = 1 /\ BedsHeldBy(p) = 1)

\* One doctor, one bed: a patient is READY_FOR_DISCHARGE, still holding
\* both, while another waits for the doctor.
C6_Witness ==
    /\ numDoctors = 1 /\ numBeds = 1
    /\ \E p, q \in Patients :
          /\ status[p] = READY_FOR_DISCHARGE /\ ~Failed(p)
          /\ taskPc[q] = "wait_doctor"

\* C7: every change of a record's status, in any stage and on the failure
\* paths, goes to the immediate successor in the chain.
C7_StatusSuccessor ==
    [][\A p \in Patients :
          /\ status'[p] \in {status[p], status[p] + 1}
          /\ origStatus'[p] \in {origStatus[p], origStatus[p] + 1}]_vars

\* One patient went through the whole chain while a failed one stays below.
C7_Witness ==
    \E p, q \in Patients :
        /\ status[p] = DISCHARGED
        /\ (Failed(q) \/ hist[q].lost)
        /\ status[q] < DISCHARGED

AllWorkersEnded == \A w \in Workers : workerPc[w] \in {"exited", "terminated"}

\* C8: with numPatients = 0 the run ends with total_patients = 0 and
\* processed_patients = 0, nothing collected, the discharge loop cancelled
\* and no diagnosis worker left running; when no worker stopped responding,
\* each worker took its sentinel and exited.
C8_EmptyRunTerminates ==
    (numPatients = 0)
        ~> /\ orch = "done"
           /\ total_patients = 0
           /\ processed_patients = 0
           /\ diagnosis_collected_count = 0
           /\ dischargePc = "cancelled"
           /\ AllWorkersEnded
           /\ faults = 0 => \A w \in Workers : workerPc[w] = "exited"

\* The empty run has ended and its worker exited on its sentinel.
C8_Witness ==
    /\ numPatients = 0
    /\ orch = "done"
    /\ NumProcessors(cpu_count) = 1
    /\ \A w \in Workers : workerPc[w] = "exited"
    /\ dischargePc = "cancelled"

SomeLost == \E p \in Patients : hist[p].lost

\* C9 as stated: when a diagnosis worker fails on a patient, the run still
\* terminates.
C9_DiagnosisFailureTerminates == SomeLost ~> (orch = "done")

FailedCount == Cardinality({p \in Patients : Failed(p)})

DischargeErrored == \E p \in Patients : hist[p].dischargeError

\* C10: a failed allocation task is never on the discharge queue, never
\* retried and never DISCHARGED; and once all numPatients results were
\* collected, a run whose failures are failures of allocation tasks (no
\* error in the discharge loop) ends with every other patient DISCHARGED
\* and processed_patients = numPatients - (number of failed tasks).
C10_FailureConfined ==
    /\ [](\A p \in Patients :
            /\ hist[p].tasks <= 1
            /\ Failed(p) => /\ hist[p].dischargePuts = 0
                            /\ status[p] # DISCHARGED
                            /\ dischargeCur # p)
    /\ (diagnosis_collected_count = numPatients)
          ~> \/ DischargeErrored
             \/ /\ orch = "done"
                /\ \A p \in Patients : Failed(p) \/ status[p] = DISCHARGED
                /\ processed_patients = numPatients - FailedCount

\* The run has ended with one failed task and one discharged patient.
C10_Witness ==
    /\ orch = "done"
    /\ \E p, q \in Patients : Failed(p) /\ status[q] = DISCHARGED
    /\ processed_patients = numPatients - 1

\* C11: when cancellation reaches the discharge loop while it holds a
\* dequeued patient, that patient is completed before the loop exits: a
\* loop that has ended holds no patient that is not DISCHARGED, released
\* and acknowledged.
C11_InFlightCompleted ==
    (dischargePc = "cancelled" /\ dischargeCur # 0)
        => /\ status[dischargeCur] = DISCHARGED
           /\ DoctorsHeldBy(dischargeCur) = 0
           /\ BedsHeldBy(dischargeCur) = 0

Shutdown == {"sentinels", "joinworkers", "done"}

\* C12: the discharge loop is cancelled only after every allocation task has
\* finished and the discharge queue is drained (every patient put on it is
\* dequeued, discharged and acknowledged), and the sentinels are pushed only
\* after the cancellation; at the cancellation the loop holds no patient.
C12_ShutdownOrder ==
    /\ (orch = "cancel" \/ dischargePc = "cancelled")
          => /\ \A p \in Patients : taskPc[p] \in {"done", "failed"}
             /\ unfinished_tasks = 0
             /\ discharge_queue = <<>>
             /\ dischargeCur = 0
             /\ \A p \in Patients :
                   hist[p].dischargePuts > 0 => status[p] = DISCHARGED
    /\ dischargePc = "cancelled" <=> orch \in Shutdown
    /\ (\E i \in 1..Len(diagnosis_queue) : diagnosis_queue[i] = Sentinel)
          => orch \in {"joinworkers", "done"}

C12_Witness ==
    /\ orch = "sentinels"
    /\ dischargePc = "cancelled"
    /\ numPatients = MaxPatients
    /\ processed_patients >= 1

\* C13: once the orchestrator is in the worker teardown, the teardown
\* completes, also when a worker never reacts to its sentinel (it is
\* terminated after the join timeout), and then no worker is running.
C13_TeardownCompletes ==
    (orch = "joinworkers")
        ~> (orch = "done" /\ \A w \in DOMAIN workerPc :
                                 workerPc[w] \in {"exited", "terminated"})

C13_Witness ==
    /\ orch = "done"
    /\ \E w \in Workers : workerPc[w] = "terminated"

SentinelsQueued ==
    Cardinality({i \in 1..Len(diagnosis_queue) : diagnosis_queue[i] = Sentinel})

PatientsQueued ==
    Cardinality({i \in 1..Len(diagnosis_queue) : diagnosis_queue[i] # Sentinel})

ExitedWorkers == Cardinality({w \in DOMAIN workerPc : workerPc[w] = "exited"})

\* C14: one sentinel per worker is pushed and each worker that exits has
\* taken exactly one of them (sentinels left on the queue plus exited
\* workers equal the number of workers, and nobody exits before the push);
\* a worker exits only by a sentinel, not by a timeout on the empty queue;
\* an exited worker holds no patient and never runs or dequeues again; a
\* sentinel is never on the queue together with a patient; and every
\* worker that responds eventually exits once the sentinels are pushed.
C14_SentinelShutdown ==
    /\ [](IF orch \in {"joinworkers", "done"}
            THEN SentinelsQueued + ExitedWorkers = Cardinality(DOMAIN workerPc)
            ELSE SentinelsQueued = 0 /\ ExitedWorkers = 0)
    /\ [](SentinelsQueued > 0 => PatientsQueued = 0)
    /\ [](\A w \in DOMAIN workerPc : workerPc[w] = "exited" => workerCur[w] = 0)
    /\ [][\A w \in DOMAIN workerPc :
            /\ workerPc[w] = "exited" => workerPc'[w] = "exited"
            /\ (workerPc[w] # "exited" /\ workerPc'[w] = "exited")
                  => /\ diagnosis_queue # <<>>
                     /\ Head(diagnosis_queue) = Sentinel
                     /\ diagnosis_queue' = Tail(diagnosis_queue)
                     /\ status' = status]_vars
    /\ (orch = "joinworkers")
          ~> (\A w \in DOMAIN workerPc :
                workerPc[w] \in {"exited", "hung", "terminated"})

C14_Witness ==
    /\ orch = "done"
    /\ Cardinality(DOMAIN workerPc) = 2
    /\ \A w \in Workers : workerPc[w] = "exited"
    /\ diagnosis_queue = <<>>
    /\ numPatients >= 1

\* Number of places of the diagnosis stage that hold patient p.
InDiagnosisQueue(p) ==
    Cardinality({i \in 1..Len(diagnosis_queue) : diagnosis_queue[i] = p})

InWorker(p) == Cardinality({w \in Workers : workerCur[w] = p})

InResultQueue(p) ==
    Cardinality({i \in 1..Len(diagnosis_result_queue) :
                    diagnosis_result_queue[i] = p})

Dropped(p) == IF hist[p].lost THEN 1 ELSE 0

TasksCreated == SumTo([p \in Patients |-> hist[p].tasks], numPatients)

C16_MeanOfSamples ==
    /\ avg_wait_time.n * processed_patients = sampleSum * avg_wait_time.d
    /\ avg_wait_time.d >= 1
    /\ processed_patients = 0 => avg_wait_time.n = 0
    /\ processed_patients <= total_patients

C16_Witness ==
    /\ processed_patients >= 2
    /\ avg_wait_time.d = 2
    /\ sampleSum = 3

\* C17: units are taken doctor first, bed second: a task waiting for a
\* doctor holds nothing, a patient holding a bed also holds a doctor, and
\* whoever holds a unit is not waiting for one of the other kind held by a
\* waiting task (a bed holder waits for no unit at all), so no doctor/bed
\* cycle of waiting tasks exists.
C17_DoctorThenBed ==
    \A p \in Patients :
        /\ taskPc[p] \in {"none", "created", "wait_doctor"}
              => DoctorsHeldBy(p) = 0 /\ BedsHeldBy(p) = 0
        /\ taskPc[p] = "wait_bed" => DoctorsHeldBy(p) = 1 /\ BedsHeldBy(p) = 0
        /\ BedsHeldBy(p) > 0
              => DoctorsHeldBy(p) > 0 /\ taskPc[p] \in {"treat", "done"}

\* One task waits for a bed with its doctor in hand while another patient
\* holds the only bed and its doctor.
C17_Witness ==
    /\ beds_semaphore = 0
    /\ \E p, q \in Patients :
          /\ taskPc[p] = "wait_bed"
          /\ DoctorsHeldBy(p) = 1
          /\ BedsHeldBy(q) = 1
          /\ DoctorsHeldBy(q) = 1

LostCount == Cardinality({p \in Patients : hist[p].lost})

\* C18: a diagnosis worker that fails on a patient stays in its loop (its
\* next step is the next get) and the queue keeps being consumed; the
\* patient it failed on is never on the result queue, never gets an
\* allocation task, never acquires a doctor or a bed and is never counted
\* in processed_patients.
C18_WorkerSurvivesFailure ==
    /\ [](\A p \in Patients :
            hist[p].lost
              => /\ InResultQueue(p) = 0
                 /\ InDiagnosisQueue(p) = 0
                 /\ hist[p].diagnosed = 0
                 /\ hist[p].tasks = 0
                 /\ taskPc[p] = "none"
                 /\ hist[p].docAcq = 0
                 /\ hist[p].bedAcq = 0
                 /\ status[p] \in {WAITING_DIAGNOSIS, DIAGNOSED})
    /\ [](processed_patients + LostCount <= numPatients)
    /\ [][\A w \in DOMAIN workerPc :
            (/\ workerPc[w] = "busy"
             /\ ~hist[workerCur[w]].lost
             /\ hist'[workerCur[w]].lost)
                => workerPc'[w] = "get" /\ workerCur'[w] = 0]_vars
    /\ SomeLost
          ~> (\A p \in Patients :
                hist[p].diagPuts = 1 => hist[p].lost \/ hist[p].diagnosed = 1)

\* The only worker has failed on one patient and is now diagnosing the
\* next one.
C18_Witness ==
    /\ Cardinality(DOMAIN workerPc) = 1
    /\ \E p, q \in Patients :
          /\ hist[p].lost
          /\ \E w \in Workers : workerPc[w] = "busy" /\ workerCur[w] = q

InDischargeLoop == IF dischargeCur = 0 THEN 0 ELSE 1

\* C19 as stated: after an error while the discharge loop processes a
\* dequeued patient, that item is acknowledged (only the items still on the
\* queue or in the loop's hand are unfinished, so the join can return) and
\* the patient's doctor and bed are back in the pools.
C19_DischargeErrorAcknowledged ==
    /\ unfinished_tasks = Len(discharge_queue) + InDischargeLoop
    /\ \A p \in Patients :
          hist[p].dischargeError
            => DoctorsHeldBy(p) = 0 /\ BedsHeldBy(p) = 0

\* C20 as stated: for every cpu_count >= 1 and numPatients >= 1 the
\* diagnosis pool has at least one worker, so a patient put on the
\* diagnosis queue has a worker to take it.
C20_PoolNonEmpty ==
    (numPatients >= 1 /\ cpu_count >= 1)
        => /\ NumProcessors(cpu_count) >= 1
           /\ diagnosis_queue # <<>> => HasWorker

\* C21: when the simulation has reached its end, the doctor pool is back
\* at numDoctors and the bed pool at numBeds, and no patient, discharged or
\* failed, holds a unit; in runs without failures and in runs where
\* allocation tasks failed and rolled back.
C21_NoLeakAtEnd ==
    orch = "done"
        => /\ doctors_semaphore = numDoctors
           /\ beds_semaphore = numBeds
           /\ \A p \in Patients : DoctorsHeldBy(p) = 0 /\ BedsHeldBy(p) = 0
           /\ \A p \in Patients : Failed(p) \/ status[p] = DISCHARGED

\* The run has ended; one task failed after taking a doctor and a bed and
\* rolled them back, another patient was discharged.
C21_Witness ==
    /\ orch = "done"
    /\ \E p, q \in Patients :
          /\ Failed(p)
          /\ hist[p].docAcq = 1
          /\ hist[p].bedAcq = 1
          /\ status[q] = DISCHARGED
          /\ hist[q].docRel = 1

====
